---------------------------- MODULE Spec2Model ----------------------------
(***************************************************************************)
(* Model of the Munbyn RW402B CUPS raster filter                           *)
(* (src/RW402B-Linux-Driver/rastertorw402b.c).                             *)
(*                                                                         *)
(* C arrays are functions over 0..n-1, so that an index of the model is    *)
(* the index of the source.  Each function of the source has its own       *)
(* frame variable; process_raster_page has one variable per local.         *)
(***************************************************************************)
EXTENDS Integers, Sequences, FiniteSets, TLC

VARIABLES
    ed,             \* frame of error_diffusion
    cv,             \* frame of convert_gray_to_mono
    im,             \* frame of apply_image_manipulations
    op,             \* frame of set_pstops_options
    pc,             \* position inside process_raster_page
    header,         \* cups_page_header2_t header (the three fields read)
    raster_buffer,  \* the page's raster buffer
    mono_buffer,    \* the page's monochrome buffer
    buffer,         \* the intensity field of convert_gray_to_mono
    config,         \* print_job_config_t of the job
    stdio,          \* stdout: the FILE's buffer and the bytes on descriptor 1
    stderr,         \* messages written to standard error
    page,           \* bookkeeping of the page in progress
    pages           \* number of headers read from the raster stream

jobVars == <<pc, header, raster_buffer, mono_buffer, buffer, config, stdio,
             stderr, page, pages>>
vars == <<ed, cv, im, op, pc, header, raster_buffer, mono_buffer, buffer,
          config, stdio, stderr, page, pages>>

-----------------------------------------------------------------------------
(* Bounds of the model *)

\* largest number of cells (width * height) of a field drawn in full
MaxCells == 6

\* Sample values of a grayscale byte: both ends, and both sides of the
\* threshold 128
Samples == {0, 127, 128, 255}

-----------------------------------------------------------------------------
(* C arithmetic and memory *)

\* C's integer division truncates toward zero
TruncDiv(a, b) == IF a >= 0 THEN a \div b ELSE -((-a) \div b)

\* a[i] += v.  A store outside the array lands in memory that is not the
\* array's: the model records it by a cell outside 0..n-1.
AddAt(a, i, v) ==
    IF i \in DOMAIN a
      THEN [a EXCEPT ![i] = @ + v]
      ELSE [j \in DOMAIN a \cup {i} |-> IF j = i THEN v ELSE a[j]]

\* a[i] = v
StoreAt(a, i, v) ==
    [j \in DOMAIN a \cup {i} |-> IF j = i THEN v ELSE a[j]]

\* The shapes W x H of the fields drawn in full
Shapes == {s \in (1..MaxCells) \X (1..MaxCells) : s[1] * s[2] <= MaxCells}

-----------------------------------------------------------------------------
(* error_diffusion *)

Quantize(old_pixel) == IF old_pixel < 128 THEN 0 ELSE 255

\* The guards of the four neighbour updates
HasEast(x, y, width, height) == x + 1 < width
HasSouthWest_NoLeftCheck(x, y, width, height) == y + 1 < height
HasSouthWest(x, y, width, height) == x - 1 >= 0 /\ y + 1 < height
HasSouth(x, y, width, height) == y + 1 < height
HasSouthEast(x, y, width, height) == x + 1 < width /\ y + 1 < height

\* The body of the inner loop at (x, y)
DiffuseCell(input_data, width, height, x, y) ==
    LET old_pixel == input_data[y * width + x]
        new_pixel == Quantize(old_pixel)
        quant_error == old_pixel - new_pixel
        d0 == StoreAt(input_data, y * width + x, new_pixel)
        d1 == IF HasEast(x, y, width, height)
                THEN AddAt(d0, y * width + (x + 1), TruncDiv(quant_error * 7, 16))
                ELSE d0
        d2 == IF HasSouthWest(x, y, width, height)
                THEN AddAt(d1, (y + 1) * width + (x - 1), TruncDiv(quant_error * 3, 16))
                ELSE d1
        d3 == IF HasSouth(x, y, width, height)
                THEN AddAt(d2, (y + 1) * width + x, TruncDiv(quant_error * 5, 16))
                ELSE d2
        d4 == IF HasSouthEast(x, y, width, height)
                THEN AddAt(d3, (y + 1) * width + (x + 1), TruncDiv(quant_error * 1, 16))
                ELSE d3
    IN  d4

\* The two nested loops, from cell k (in row-major order) to the end.  (The
\* test d = input_data changes nothing: it makes TLC compute d before the
\* next iteration instead of nesting the iterations' unevaluated values.)
RECURSIVE DiffuseFrom(_, _, _, _)
DiffuseFrom(input_data, width, height, k) ==
    IF k >= width * height
      THEN input_data
      ELSE LET d == DiffuseCell(input_data, width, height, k % width, k \div width)
           IN  IF d = input_data
                 THEN DiffuseFrom(input_data, width, height, k + 1)
                 ELSE DiffuseFrom(d, width, height, k + 1)

error_diffusion(input_data, width, height) ==
    DiffuseFrom(input_data, width, height, 0)

\* error_diffusion run one cell at a time; input0 keeps the field as passed
EdIdle == [pc |-> "idle"]

EdInit ==
    \E s \in Shapes :
      \E f \in [0 .. s[1] * s[2] - 1 -> Samples] :
        ed = [pc |-> "loop", input_data |-> f, width |-> s[1], height |-> s[2],
              x |-> 0, y |-> 0, input0 |-> f]

\* one iteration of the inner loop, and the loop counters' advance
EdStep ==
    /\ ed.pc = "loop"
    /\ ed.y < ed.height
    /\ LET d == DiffuseCell(ed.input_data, ed.width, ed.height, ed.x, ed.y)
           lastInRow == ed.x + 1 >= ed.width
       IN  ed' = [ed EXCEPT !.input_data = d,
                            !.x = IF lastInRow THEN 0 ELSE ed.x + 1,
                            !.y = IF lastInRow THEN ed.y + 1 ELSE ed.y]
    /\ UNCHANGED <<cv, im, op, jobVars>>

\* the outer loop's exit
EdReturn ==
    /\ ed.pc = "loop"
    /\ ed.y >= ed.height
    /\ ed' = [ed EXCEPT !.pc = "done"]
    /\ UNCHANGED <<cv, im, op, jobVars>>

-----------------------------------------------------------------------------
(* convert_gray_to_mono *)

\* largest width and height of a field drawn for convert_gray_to_mono
MaxWidth == 9
MaxHeight == 2

\* Values an uninitialised byte (fresh malloc memory, memory past a buffer)
\* may hold
Garbage == {0, 255}

Pow2(n) == IF n = 0 THEN 1 ELSE IF n = 1 THEN 2 ELSE IF n = 2 THEN 4
           ELSE IF n = 3 THEN 8 ELSE IF n = 4 THEN 16 ELSE IF n = 5 THEN 32
           ELSE IF n = 6 THEN 64 ELSE 128

\* bit n of byte b
Bit(b, n) == (b \div Pow2(n)) % 2

\* b & ~(1 << n)
ClearBit(b, n) == IF Bit(b, n) = 1 THEN b - Pow2(n) ELSE b

\* a[i], or garbage g when i is past the array
Load(a, i, g) == IF i \in DOMAIN a THEN a[i] ELSE g

\* (width + 7) / 8
WidthBytes(width) == (width + 7) \div 8

\* the bit of column x inside its byte
BitOf_LsbFirst(x) == x % 8
BitOf(x) == 7 - (x % 8)

\* for (i < width * height) buffer[i] = gray_data[i]
CopyGray(gray_data, width, height, g) ==
    [i \in 0 .. width * height - 1 |-> Load(gray_data, i, g)]

\* memset(mono_data, 0xFF, ((width + 7) / 8) * height)
Memset(mono_data, n) ==
    [i \in DOMAIN mono_data \cup (0 .. n - 1) |-> IF i < n THEN 255 ELSE mono_data[i]]

\* the packing loops, from cell k (in row-major order) to the end
RECURSIVE PackFrom(_, _, _, _, _)
PackFrom(mono_data, buf, width, height, k) ==
    IF k >= width * height
      THEN mono_data
      ELSE LET x == k % width
               y == k \div width
               at == y * WidthBytes(width) + (x \div 8)
               m == IF buf[y * width + x] < 128
                      THEN StoreAt(mono_data, at, ClearBit(Load(mono_data, at, 0), BitOf(x)))
                      ELSE mono_data
           IN  IF m = mono_data
                 THEN PackFrom(mono_data, buf, width, height, k + 1)
                 ELSE PackFrom(m, buf, width, height, k + 1)

\* convert_gray_to_mono once its malloc has succeeded and the field is copied:
\* error_diffusion, the memset and the packing loops
PackMono(mono_data, buf, width, height) ==
    PackFrom(Memset(mono_data, WidthBytes(width) * height),
             error_diffusion(buf, width, height), width, height, 0)

\* A field with one cell of value a among cells of value b
OneHot(width, height, hot, a, b) ==
    [i \in 0 .. width * height - 1 |-> IF i = hot THEN a ELSE b]

CvIdle == [pc |-> "idle"]

\* the caller's arguments: mono_data is fresh memory of the caller's size
CvInit ==
    \E width \in 1 .. MaxWidth, height \in 1 .. MaxHeight :
      \E hot \in 0 .. width * height - 1, a \in Samples, b \in Samples, g \in Garbage :
        cv = [pc |-> "call", width |-> width, height |-> height,
              gray_data |-> OneHot(width, height, hot, a, b),
              mono_data |-> [i \in 0 .. WidthBytes(width) * height - 1 |-> g],
              buffer |-> << >>]

\* convert_gray_to_mono with a successful malloc; the frame keeps the
\* intensity field as it was when packed (it is freed on return)
CvConvert ==
    /\ cv.pc = "call"
    /\ LET buf == CopyGray(cv.gray_data, cv.width, cv.height, 0)
       IN  cv' = [cv EXCEPT !.pc = "done",
                            !.buffer = error_diffusion(buf, cv.width, cv.height),
                            !.mono_data = PackMono(cv.mono_data, buf, cv.width, cv.height)]
    /\ UNCHANGED <<ed, im, op, jobVars>>

\* convert_gray_to_mono when malloc returns NULL: mono_data is left as it was
CvNoMemory ==
    /\ cv.pc = "call"
    /\ cv' = [cv EXCEPT !.pc = "nomem"]
    /\ UNCHANGED <<ed, im, op, jobVars>>

-----------------------------------------------------------------------------
(* apply_image_manipulations *)

\* number of calls of apply_image_manipulations on one buffer
MaxCalls == 2

\* Sample values of a byte for the transforms (not closed under 255 - v)
GraySamples == {0, 100, 255}

\* for (i < width * height) bitmap[i] = 255 - bitmap[i]
RECURSIVE NegateFrom(_, _, _, _)
NegateFrom(bitmap, n, i, g) ==
    IF i >= n
      THEN bitmap
      ELSE LET b == StoreAt(bitmap, i, 255 - Load(bitmap, i, g))
           IN  IF b = bitmap
                 THEN NegateFrom(bitmap, n, i + 1, g)
                 ELSE NegateFrom(b, n, i + 1, g)

\* the bound of the inner mirror loop: x < width / 2
MirrorSpan_Full(width) == width
MirrorSpan(width) == width \div 2

\* the swap of bitmap[a] and bitmap[b]
Swap(bitmap, a, b, g) ==
    LET temp == Load(bitmap, a, g)
        b1 == StoreAt(bitmap, a, Load(bitmap, b, g))
    IN  StoreAt(b1, b, temp)

\* the mirror loops, from row y, column x to the end
RECURSIVE MirrorFrom(_, _, _, _, _, _)
MirrorFrom(bitmap, width, height, y, x, g) ==
    IF y >= height
      THEN bitmap
      ELSE IF x >= MirrorSpan(width)
        THEN MirrorFrom(bitmap, width, height, y + 1, 0, g)
        ELSE LET b == Swap(bitmap, y * width + x, y * width + (width - 1 - x), g)
             IN  IF b = bitmap
                   THEN MirrorFrom(bitmap, width, height, y, x + 1, g)
                   ELSE MirrorFrom(b, width, height, y, x + 1, g)

\* apply_image_manipulations: negative, then mirror; rotate == 2 does
\* nothing.  The result is the bitmap and the (unchanged) *width, *height.
apply_image_manipulations(bitmap, width, height, cfg, g) ==
    LET b1 == IF cfg.negativeImage # 0
                THEN NegateFrom(bitmap, width * height, 0, g)
                ELSE bitmap
        b2 == IF cfg.mirrorImage # 0
                THEN MirrorFrom(b1, width, height, 0, 0, g)
                ELSE b1
    IN  [bitmap |-> b2, width |-> width, height |-> height]

ImIdle == [pc |-> "idle"]

ImInit ==
    \E s \in Shapes :
      \E f \in [0 .. s[1] * s[2] - 1 -> GraySamples] :
        \E mirror \in {0, 1}, negative \in {0, 1}, rotate \in {0, 2} :
          im = [pc |-> "ready", bitmap |-> f, orig |-> f,
                width |-> s[1], height |-> s[2],
                width0 |-> s[1], height0 |-> s[2], calls |-> 0,
                config |-> [mirrorImage |-> mirror, negativeImage |-> negative,
                            rotate |-> rotate]]

ImApply ==
    /\ im.pc = "ready"
    /\ im.calls < MaxCalls
    /\ LET r == apply_image_manipulations(im.bitmap, im.width, im.height, im.config, 0)
       IN  im' = [im EXCEPT !.bitmap = r.bitmap, !.width = r.width,
                            !.height = r.height, !.calls = @ + 1]
    /\ UNCHANGED <<ed, cv, op, jobVars>>

-----------------------------------------------------------------------------
(* set_pstops_options *)

\* A C string is the tuple of its characters
Digits == {"0", "1", "2", "3", "4", "5", "6", "7", "8", "9"}

DigitVal(c) ==
    CASE c = "0" -> 0 [] c = "1" -> 1 [] c = "2" -> 2 [] c = "3" -> 3
      [] c = "4" -> 4 [] c = "5" -> 5 [] c = "6" -> 6 [] c = "7" -> 7
      [] c = "8" -> 8 [] OTHER -> 9

\* isspace
Spaces == {" ", "\t", "\n", "\r"}

\* the first position from i on that holds no white space
RECURSIVE SkipSpace(_, _)
SkipSpace(s, i) ==
    IF i <= Len(s) /\ s[i] \in Spaces THEN SkipSpace(s, i + 1) ELSE i

\* the first position from i on that holds no digit
RECURSIVE DigitsEnd(_, _)
DigitsEnd(s, i) ==
    IF i <= Len(s) /\ s[i] \in Digits THEN DigitsEnd(s, i + 1) ELSE i

\* the value of the digits s[i .. j-1], read left to right from acc
RECURSIVE DecValue(_, _, _, _)
DecValue(s, i, j, acc) ==
    IF i >= j THEN acc ELSE DecValue(s, i + 1, j, acc * 10 + DigitVal(s[i]))

\* A decimal integer as strtol, atoi and scanf's %d read it at position i:
\* white space, an optional sign, at least one digit
ScanInt(s, i) ==
    LET j == SkipSpace(s, i)
        signed == j <= Len(s) /\ s[j] \in {"-", "+"}
        k == IF signed THEN j + 1 ELSE j
        e == DigitsEnd(s, k)
        v == DecValue(s, k, e, 0)
    IN  IF e = k
          THEN [ok |-> FALSE, val |-> 0, next |-> i]
          ELSE [ok |-> TRUE, val |-> IF signed /\ s[j] = "-" THEN -v ELSE v,
                next |-> e]

atoi(s) == ScanInt(s, 1).val

\* s holds lit from position i on
HasAt(s, i, lit) ==
    /\ i + Len(lit) - 1 <= Len(s)
    /\ \A k \in 1 .. Len(lit) : s[i + k - 1] = lit[k]

\* strncmp(val, "Custom", 6) == 0
IsCustom(val) == HasAt(val, 1, <<"C", "u", "s", "t", "o", "m">>)

\* sscanf(s, "<lit1>%d<lit2>%d", &a, &b): the number of values assigned and
\* the values; a value that is not assigned is left as it was (a0, b0)
sscanf2(s, lit1, lit2, a0, b0) ==
    IF ~HasAt(s, 1, lit1)
      THEN [n |-> 0, a |-> a0, b |-> b0]
      ELSE LET r1 == ScanInt(s, 1 + Len(lit1))
           IN  IF ~r1.ok
                 THEN [n |-> 0, a |-> a0, b |-> b0]
                 ELSE IF ~HasAt(s, r1.next, lit2)
                   THEN [n |-> 1, a |-> r1.val, b |-> b0]
                   ELSE LET r2 == ScanInt(s, r1.next + Len(lit2))
                        IN  IF ~r2.ok
                              THEN [n |-> 1, a |-> r1.val, b |-> b0]
                              ELSE [n |-> 2, a |-> r1.val, b |-> r2.val]

\* (int)(v / 2.835): the quotient truncated toward zero.  For the integers
\* of the model the double quotient and the exact one v * 1000 / 2835
\* truncate to the same integer.
PointsToMm(v) == TruncDiv(v * 1000, 2835)

\* the PageSize branch (lines 214-229)
SetPageSize(cfg, val) ==
    IF IsCustom(val)
      THEN LET r == sscanf2(val, <<"C", "u", "s", "t", "o", "m", ".">>, <<"x">>,
                            cfg.page_width_mm, cfg.page_height_mm)
           IN  [cfg EXCEPT !.page_width_mm = PointsToMm(r.a),
                           !.page_height_mm = PointsToMm(r.b)]
      ELSE LET r == sscanf2(val, <<"w">>, <<"h">>,
                            cfg.page_width_mm, cfg.page_height_mm)
           IN  IF r.n = 2
                 THEN [cfg EXCEPT !.page_width_mm = PointsToMm(r.a),
                                  !.page_height_mm = PointsToMm(r.b)]
                 ELSE [cfg EXCEPT !.page_width_mm = r.a,
                                  !.page_height_mm = r.b]

\* the options read with atoi, and the field each one sets
IntOptions ==
    << <<"Darkness", "darkness">>, <<"PrintSpeed", "speed">>,
       <<"MediaType", "mediaType">>, <<"Rotate", "rotate">>,
       <<"PrintMode", "print_mode">>, <<"Horizontal", "horizontal_offset">>,
       <<"Vertical", "vertical_offset">>, <<"GapHeight", "gap_height">>,
       <<"GapOffset", "gap_offset">>, <<"GD41Mirror", "mirrorImage">>,
       <<"GD41Negative", "negativeImage">> >>

\* the eleven "if ((val = cupsGetOption(...))) config->f = atoi(val)" lines,
\* from the k-th on
RECURSIVE SetIntOptions(_, _, _)
SetIntOptions(cfg, options, k) ==
    IF k > Len(IntOptions)
      THEN cfg
      ELSE LET name == IntOptions[k][1]
               f == IntOptions[k][2]
               c == IF name \in DOMAIN options
                      THEN [cfg EXCEPT ![f] = atoi(options[name])]
                      ELSE cfg
           IN  SetIntOptions(c, options, k + 1)

set_pstops_options(cfg, options) ==
    LET c == SetIntOptions(cfg, options, 1)
    IN  IF "PageSize" \in DOMAIN options
          THEN SetPageSize(c, options["PageSize"])
          ELSE c

\* main's config = {0}, the four defaults and copies = atoi(argv[4])
MainConfig(copies) ==
    [copies |-> copies, speed |-> 4, mediaType |-> 1, mirrorImage |-> 0,
     negativeImage |-> 0, rotate |-> 0, darkness |-> 12, gap_height |-> 3,
     gap_offset |-> 0, horizontal_offset |-> 0, vertical_offset |-> 0,
     print_mode |-> 0, page_width_mm |-> 0, page_height_mm |-> 0]

\* PageSize values: a head, a separator, a number, a separator, a number
\* and a tail, each possibly empty
PageSizeValues ==
    { h \o d \o a \o x \o b \o t :
        h \in { <<"C", "u", "s", "t", "o", "m">>, <<"C", "u", "s", "t", "o">>,
                <<"w">>, <<"A", "4">> },
        d \in { << >>, <<".">> },
        a \in { << >>, <<"2", "0", "0">>, <<"7", "2">>, <<"-", "9">> },
        x \in { << >>, <<"x">>, <<"h">>, <<"f", "o", "o">> },
        b \in { << >>, <<"1", "0", "0">>, <<"7", "2">> },
        t \in { << >>, <<"z">> } }

\* values of an integer option
IntValues == { <<"0">>, <<"1">>, <<"1", "5">>, <<"-", "2">>, <<" ", "7", "x">>, <<"o", "n">> }

\* the option tables drawn: PageSize alone, one integer option alone, both,
\* or none
OptionTables ==
    LET none == [k \in {} |-> << >>]
        ints == { [k \in {IntOptions[i][1]} |-> v] : i \in 1 .. Len(IntOptions), v \in IntValues }
        sizes == { [k \in {"PageSize"} |-> v] : v \in PageSizeValues }
        both == { [k \in {"PageSize", "GD41Mirror"} |->
                     IF k = "PageSize" THEN v ELSE <<"1">>] : v \in PageSizeValues }
    IN  {none} \cup ints \cup sizes \cup both

OpIdle == [pc |-> "idle"]

OpInit ==
    \E options \in OptionTables :
      op = [pc |-> "call", options |-> options, config |-> MainConfig(1)]

OpSetOptions ==
    /\ op.pc = "call"
    /\ op' = [op EXCEPT !.pc = "done",
                        !.config = set_pstops_options(op.config, op.options)]
    /\ UNCHANGED <<ed, cv, im, jobVars>>

-----------------------------------------------------------------------------
(* stdout: printf, fflush, write *)

\* The code of a character of the command text
Ascii(c) ==
    CASE c = "\r" -> 13 [] c = "\n" -> 10 [] c = " " -> 32 [] c = "," -> 44
      [] c = "-" -> 45
      [] c = "0" -> 48 [] c = "1" -> 49 [] c = "2" -> 50 [] c = "3" -> 51
      [] c = "4" -> 52 [] c = "5" -> 53 [] c = "6" -> 54 [] c = "7" -> 55
      [] c = "8" -> 56 [] c = "9" -> 57
      [] c = "A" -> 65 [] c = "B" -> 66 [] c = "C" -> 67 [] c = "D" -> 68
      [] c = "E" -> 69 [] c = "F" -> 70 [] c = "G" -> 71 [] c = "I" -> 73
      [] c = "L" -> 76 [] c = "M" -> 77 [] c = "N" -> 78 [] c = "O" -> 79
      [] c = "P" -> 80 [] c = "R" -> 82 [] c = "S" -> 83 [] c = "T" -> 84
      [] c = "Y" -> 89 [] c = "Z" -> 90 [] c = "m" -> 109

\* the bytes of a text
Text(t) == [i \in 1 .. Len(t) |-> Ascii(t[i])]

\* the digits of n >= 0, most significant first
RECURSIVE DecDigits(_)
DecDigits(n) ==
    IF n < 10 THEN <<48 + n>> ELSE Append(DecDigits(n \div 10), 48 + (n % 10))

\* printf's %d
FormatInt(n) == IF n < 0 THEN <<45>> \o DecDigits(-n) ELSE DecDigits(n)

CRLF == <<13, 10>>

\* printf appends to the FILE's buffer, fflush moves the buffer to the
\* descriptor, write appends to the descriptor at once
Printf(io, bytes) == [io EXCEPT !.buf = @ \o bytes]
Fflush(io) == [io EXCEPT !.fd = @ \o io.buf, !.buf = << >>]
Write(io, bytes) == [io EXCEPT !.fd = @ \o bytes]

\* the fflush(stdout) between the BITMAP text and the payload (line 335)
FlushBeforeWrite_Missing(io) == io
FlushBeforeWrite(io) == Fflush(io)

\* the text of the eight printf calls before the payload (lines 327-334)
CommandText(width_bytes, height_pixels, cfg) ==
       Text(<<"S", "I", "Z", "E", " ">>) \o FormatInt(cfg.page_width_mm)
    \o Text(<<" ", "m", "m", ",">>) \o FormatInt(cfg.page_height_mm)
    \o Text(<<" ", "m", "m">>) \o CRLF
    \o Text(<<"G", "A", "P", " ">>) \o FormatInt(cfg.gap_height)
    \o Text(<<" ", "m", "m", ",">>) \o FormatInt(cfg.gap_offset)
    \o Text(<<" ", "m", "m">>) \o CRLF
    \o Text(<<"D", "I", "R", "E", "C", "T", "I", "O", "N", " ", "0", ",", "0">>) \o CRLF
    \o Text(<<"R", "E", "F", "E", "R", "E", "N", "C", "E", " ">>)
    \o FormatInt(cfg.horizontal_offset) \o Text(<<",">>)
    \o FormatInt(cfg.vertical_offset) \o CRLF
    \o Text(<<"D", "E", "N", "S", "I", "T", "Y", " ">>) \o FormatInt(cfg.darkness) \o CRLF
    \o Text(<<"S", "P", "E", "E", "D", " ">>) \o FormatInt(cfg.speed) \o CRLF
    \o Text(<<"C", "L", "S">>) \o CRLF
    \o Text(<<"B", "I", "T", "M", "A", "P", " ", "0", ",", "0", ",">>)
    \o FormatInt(width_bytes) \o Text(<<",">>) \o FormatInt(height_pixels)
    \o Text(<<",", "1", ",">>)

\* the text of the printf after the payload (line 339)
PrintText(cfg) ==
    CRLF \o Text(<<"P", "R", "I", "N", "T", " ", "1", ",">>) \o FormatInt(cfg.copies) \o CRLF

\* the first n bytes of mono_data, as write() takes them
Payload(mono_data, n) == [i \in 1 .. n |-> mono_data[i - 1]]

send_printer_commands(io, mono_data, width_bytes, height_pixels, cfg) ==
    LET s1 == Printf(io, CommandText(width_bytes, height_pixels, cfg))
        s2 == FlushBeforeWrite(s1)
        s3 == Write(s2, Payload(mono_data, width_bytes * height_pixels))
        s4 == Printf(s3, PrintText(cfg))
    IN  Fflush(s4)

-----------------------------------------------------------------------------
(* process_raster_page *)

\* largest number of page headers in the raster stream
MaxPages == 2

\* The headers of the stream: pages narrower and wider than one byte of
\* eight pixels, with rows shorter than, as long as and longer than the
\* width, and the headers with one or every field zero
PageHeaders ==
    { [cupsWidth |-> 2, cupsHeight |-> 1, cupsBytesPerLine |-> 2],
      [cupsWidth |-> 9, cupsHeight |-> 2, cupsBytesPerLine |-> 9],
      [cupsWidth |-> 2, cupsHeight |-> 2, cupsBytesPerLine |-> 9],
      [cupsWidth |-> 9, cupsHeight |-> 1, cupsBytesPerLine |-> 2] }

ZeroHeaders ==
    { [cupsWidth |-> 0, cupsHeight |-> 1, cupsBytesPerLine |-> 2],
      [cupsWidth |-> 2, cupsHeight |-> 0, cupsBytesPerLine |-> 2],
      [cupsWidth |-> 2, cupsHeight |-> 1, cupsBytesPerLine |-> 0],
      [cupsWidth |-> 0, cupsHeight |-> 0, cupsBytesPerLine |-> 0] }

Headers == PageHeaders \cup ZeroHeaders

\* The bytes of a page in the raster stream, by position
SourcePatterns == {"light", "ramp"}

SourceByte(kind, i) ==
    CASE kind = "light" -> 255
      [] kind = "dark" -> 0
      [] OTHER -> (i * 100) % 256

\* cupsRasterReadPixels returns the number of bytes read: none, a part, all
ReadCounts(len) == {0, len \div 2, len}

\* The configurations of a job: main's defaults with a 50 x 30 mm page, and
\* one with every option set
JobConfigs ==
    { [MainConfig(1) EXCEPT !.page_width_mm = 50, !.page_height_mm = 30],
      [MainConfig(2) EXCEPT !.page_width_mm = 70, !.page_height_mm = 35,
          !.mirrorImage = 1, !.negativeImage = 1, !.rotate = 2,
          !.darkness = 8, !.speed = 3, !.gap_height = 2, !.gap_offset = 1,
          !.horizontal_offset = -4, !.vertical_offset = 12] }

\* a pointer that holds no block
NoBlock == [st |-> "null", data |-> << >>]

\* malloc(n): a block of n bytes of garbage
Block(n, g) == [st |-> "live", data |-> [i \in 0 .. n - 1 |-> g]]

\* free(p)
Free_Forgotten(b) == b
Free(b) ==
    IF b.st = "live"
      THEN [st |-> "freed", data |-> << >>]
      ELSE [st |-> "double_free", data |-> << >>]

\* the test of line 145
Degenerate_NoHeight(h) == h.cupsWidth = 0 \/ h.cupsBytesPerLine = 0
Degenerate(h) == h.cupsWidth = 0 \/ h.cupsHeight = 0 \/ h.cupsBytesPerLine = 0

NoPage ==
    [result |-> "none", start |-> 0, nread |-> -1, failed |-> "none",
     width |-> 0, height |-> 0, mono_width_bytes |-> 0]

JobInit ==
    /\ pc = "read_header"
    /\ header = [cupsWidth |-> 0, cupsHeight |-> 0, cupsBytesPerLine |-> 0]
    /\ raster_buffer = NoBlock
    /\ mono_buffer = NoBlock
    /\ buffer = NoBlock
    /\ config \in JobConfigs
    /\ stdio = [buf |-> << >>, fd |-> << >>]
    /\ stderr = << >>
    /\ page = NoPage
    /\ pages = [read |-> 0, skipped |-> 0, emitted |-> 0]

JobIdle ==
    /\ pc = "idle"
    /\ header = [cupsWidth |-> 0, cupsHeight |-> 0, cupsBytesPerLine |-> 0]
    /\ raster_buffer = NoBlock
    /\ mono_buffer = NoBlock
    /\ buffer = NoBlock
    /\ config = MainConfig(1)
    /\ stdio = [buf |-> << >>, fd |-> << >>]
    /\ stderr = << >>
    /\ page = NoPage
    /\ pages = [read |-> 0, skipped |-> 0, emitted |-> 0]

\* cupsRasterReadHeader2 returns 0: the loop and the function end
EndOfStream ==
    /\ pc = "read_header"
    /\ pc' = "returned"
    /\ page' = [page EXCEPT !.result = "eof"]
    /\ UNCHANGED <<ed, cv, im, op, header, raster_buffer, mono_buffer, buffer,
                   config, stdio, stderr, pages>>

\* cupsRasterReadHeader2 returns a header, and the test of line 145
ReadHeader ==
    /\ pc = "read_header"
    /\ pages.read < MaxPages
    /\ \E h \in Headers :
         /\ header' = h
         /\ IF Degenerate(h)
              THEN /\ pc' = "read_header"
                   /\ page' = [NoPage EXCEPT !.result = "skipped",
                                             !.start = Len(stdio.fd)]
                   /\ pages' = [pages EXCEPT !.read = @ + 1, !.skipped = @ + 1]
              ELSE /\ pc' = "alloc_raster"
                   /\ page' = [NoPage EXCEPT !.result = "started",
                                             !.start = Len(stdio.fd)]
                   /\ pages' = [pages EXCEPT !.read = @ + 1]
    /\ UNCHANGED <<ed, cv, im, op, raster_buffer, mono_buffer, buffer, config,
                   stdio, stderr>>

\* raster_buffer = malloc(cupsHeight * cupsBytesPerLine) succeeds
AllocRaster ==
    /\ pc = "alloc_raster"
    /\ \E g \in Garbage :
         raster_buffer' = Block(header.cupsHeight * header.cupsBytesPerLine, g)
    /\ pc' = "read_pixels"
    /\ UNCHANGED <<ed, cv, im, op, header, mono_buffer, buffer, config, stdio,
                   stderr, page, pages>>

\* raster_buffer = malloc(...) returns NULL (lines 149-153)
AllocRasterFails ==
    /\ pc = "alloc_raster"
    /\ raster_buffer' = NoBlock
    /\ stderr' = Append(stderr, "ERROR: Unable to allocate memory for raster page.")
    /\ page' = [page EXCEPT !.result = "aborted", !.failed = "raster_buffer"]
    /\ pc' = "returned"
    /\ UNCHANGED <<ed, cv, im, op, header, mono_buffer, buffer, config, stdio, pages>>

\* cupsRasterReadPixels and the test of its result (lines 155-160), then
\* the locals width and height (lines 162-163)
ReadPixels ==
    /\ pc = "read_pixels"
    /\ LET len == header.cupsHeight * header.cupsBytesPerLine
       IN  \E n \in ReadCounts(len), kind \in SourcePatterns :
             IF n = 0
               THEN /\ raster_buffer' = Free(raster_buffer)
                    /\ stderr' = Append(stderr, "ERROR: Failed to read raster pixels.")
                    /\ page' = [page EXCEPT !.result = "aborted", !.nread = n]
                    /\ pc' = "returned"
               ELSE /\ raster_buffer' =
                         [raster_buffer EXCEPT !.data =
                            [i \in 0 .. len - 1 |->
                               IF i < n THEN SourceByte(kind, i) ELSE raster_buffer.data[i]]]
                    /\ stderr' = stderr
                    /\ page' = [page EXCEPT !.nread = n,
                                            !.width = header.cupsWidth,
                                            !.height = header.cupsHeight]
                    /\ pc' = "manipulate"
    /\ UNCHANGED <<ed, cv, im, op, header, mono_buffer, buffer, config, stdio, pages>>

\* apply_image_manipulations(raster_buffer, &width, &height, config) and
\* mono_width_bytes (lines 165-167)
Manipulate ==
    /\ pc = "manipulate"
    /\ \E g \in Garbage :
         LET r == apply_image_manipulations(raster_buffer.data, page.width,
                                            page.height, config, g)
         IN  /\ raster_buffer' = [raster_buffer EXCEPT !.data = r.bitmap]
             /\ page' = [page EXCEPT !.width = r.width, !.height = r.height,
                                     !.mono_width_bytes = WidthBytes(r.width)]
    /\ pc' = "alloc_mono"
    /\ UNCHANGED <<ed, cv, im, op, header, mono_buffer, buffer, config, stdio,
                   stderr, pages>>

\* mono_buffer = malloc(mono_width_bytes * height) succeeds
AllocMono ==
    /\ pc = "alloc_mono"
    /\ \E g \in Garbage :
         mono_buffer' = Block(page.mono_width_bytes * page.height, g)
    /\ pc' = "convert"
    /\ UNCHANGED <<ed, cv, im, op, header, raster_buffer, buffer, config, stdio,
                   stderr, page, pages>>

\* mono_buffer = malloc(...) returns NULL (lines 169-174)
AllocMonoFails ==
    /\ pc = "alloc_mono"
    /\ mono_buffer' = NoBlock
    /\ stderr' = Append(stderr, "ERROR: Unable to allocate memory for monochrome buffer.")
    /\ raster_buffer' = Free(raster_buffer)
    /\ page' = [page EXCEPT !.result = "aborted", !.failed = "mono_buffer"]
    /\ pc' = "returned"
    /\ UNCHANGED <<ed, cv, im, op, header, buffer, config, stdio, pages>>

\* convert_gray_to_mono: buffer = malloc(width * height * sizeof(int))
\* succeeds, and the copy of gray_data (lines 269-276)
ConvertAlloc ==
    /\ pc = "convert"
    /\ \E g \in Garbage :
         buffer' = [st |-> "live",
                    data |-> CopyGray(raster_buffer.data, page.width, page.height, g)]
    /\ pc' = "pack"
    /\ UNCHANGED <<ed, cv, im, op, header, raster_buffer, mono_buffer, config,
                   stdio, stderr, page, pages>>

\* convert_gray_to_mono: malloc returns NULL and the function returns
\* (lines 270-271); process_raster_page goes on to line 177
ConvertAllocFails ==
    /\ pc = "convert"
    /\ buffer' = NoBlock
    /\ page' = [page EXCEPT !.failed = "buffer"]
    /\ pc' = "send"
    /\ UNCHANGED <<ed, cv, im, op, header, raster_buffer, mono_buffer, config,
                   stdio, stderr, pages>>

\* convert_gray_to_mono: error_diffusion, memset, the packing loops and
\* free(buffer) (lines 278-296)
ConvertPack ==
    /\ pc = "pack"
    /\ mono_buffer' = [mono_buffer EXCEPT !.data =
                          PackMono(mono_buffer.data, buffer.data, page.width, page.height)]
    /\ buffer' = Free(buffer)
    /\ pc' = "send"
    /\ UNCHANGED <<ed, cv, im, op, header, raster_buffer, config, stdio, stderr,
                   page, pages>>

\* send_printer_commands(mono_buffer, mono_width_bytes, height, config)
Send ==
    /\ pc = "send"
    /\ stdio' = send_printer_commands(stdio, mono_buffer.data, page.mono_width_bytes,
                                      page.height, config)
    /\ page' = [page EXCEPT !.result = "emitted"]
    /\ pages' = [pages EXCEPT !.emitted = @ + 1]
    /\ pc' = "free"
    /\ UNCHANGED <<ed, cv, im, op, header, raster_buffer, mono_buffer, buffer,
                   config, stderr>>

\* free(raster_buffer); free(mono_buffer); and back to the loop's head
FreeBuffers ==
    /\ pc = "free"
    /\ raster_buffer' = Free(raster_buffer)
    /\ mono_buffer' = Free(mono_buffer)
    /\ page' = [NoPage EXCEPT !.result = "emitted", !.start = page.start]
    /\ pc' = "read_header"
    /\ UNCHANGED <<ed, cv, im, op, header, buffer, config, stdio, stderr, pages>>

-----------------------------------------------------------------------------
(* Specifications *)

\* process_raster_page over a raster stream
Init == ed = EdIdle /\ cv = CvIdle /\ im = ImIdle /\ op = OpIdle /\ JobInit

Next ==
    \/ EndOfStream
    \/ ReadHeader
    \/ AllocRaster
    \/ AllocRasterFails
    \/ ReadPixels
    \/ Manipulate
    \/ AllocMono
    \/ AllocMonoFails
    \/ ConvertAlloc
    \/ ConvertAllocFails
    \/ ConvertPack
    \/ Send
    \/ FreeBuffers

Spec == Init /\ [][Next]_vars

\* error_diffusion on every field of the bounds
InitDiffuse == EdInit /\ cv = CvIdle /\ im = ImIdle /\ op = OpIdle /\ JobIdle

NextDiffuse == EdStep \/ EdReturn

SpecDiffuse == InitDiffuse /\ [][NextDiffuse]_vars

\* convert_gray_to_mono on one-hot fields
InitMono == ed = EdIdle /\ CvInit /\ im = ImIdle /\ op = OpIdle /\ JobIdle

NextMono == CvConvert \/ CvNoMemory

SpecMono == InitMono /\ [][NextMono]_vars

\* apply_image_manipulations, called up to MaxCalls times on one buffer
InitManip == ed = EdIdle /\ cv = CvIdle /\ ImInit /\ op = OpIdle /\ JobIdle

NextManip == ImApply

SpecManip == InitManip /\ [][NextManip]_vars

\* set_pstops_options on main's defaults
InitOptions == ed = EdIdle /\ cv = CvIdle /\ im = ImIdle /\ OpInit /\ JobIdle

NextOptions == OpSetOptions

SpecOptions == InitOptions /\ [][NextOptions]_vars

-----------------------------------------------------------------------------
(* Properties *)

\* ceil(n / 8), by its definition
Ceil8(n) == CHOOSE c \in 0 .. n : 8 * c >= n /\ 8 * (c - 1) < n

\* a header with a zero width, height or bytes-per-row
ZeroField(h) == 0 \in {h.cupsWidth, h.cupsHeight, h.cupsBytesPerLine}

\* the positions from which process_raster_page transforms, quantizes or emits
Processing == {"manipulate", "alloc_mono", "convert", "pack", "send", "free"}

\* one CRLF-terminated command line
Line(t) == t \o <<13, 10>>

\* The frame of one page: the eight command lines, the BITMAP command with
\* the payload right behind it, CRLF, and the PRINT line
ExpectedFrame(cfg, h, payload) ==
       Line(Text(<<"S", "I", "Z", "E", " ">>) \o FormatInt(cfg.page_width_mm)
            \o Text(<<" ", "m", "m", ",">>) \o FormatInt(cfg.page_height_mm)
            \o Text(<<" ", "m", "m">>))
    \o Line(Text(<<"G", "A", "P", " ">>) \o FormatInt(cfg.gap_height)
            \o Text(<<" ", "m", "m", ",">>) \o FormatInt(cfg.gap_offset)
            \o Text(<<" ", "m", "m">>))
    \o Line(Text(<<"D", "I", "R", "E", "C", "T", "I", "O", "N", " ", "0", ",", "0">>))
    \o Line(Text(<<"R", "E", "F", "E", "R", "E", "N", "C", "E", " ">>)
            \o FormatInt(cfg.horizontal_offset) \o <<44>>
            \o FormatInt(cfg.vertical_offset))
    \o Line(Text(<<"D", "E", "N", "S", "I", "T", "Y", " ">>) \o FormatInt(cfg.darkness))
    \o Line(Text(<<"S", "P", "E", "E", "D", " ">>) \o FormatInt(cfg.speed))
    \o Line(Text(<<"C", "L", "S">>))
    \o Text(<<"B", "I", "T", "M", "A", "P", " ", "0", ",", "0", ",">>)
    \o FormatInt(Ceil8(h.cupsWidth)) \o <<44>> \o FormatInt(h.cupsHeight)
    \o Text(<<",", "1", ",">>)
    \o payload
    \o Line(<< >>)
    \o Line(Text(<<"P", "R", "I", "N", "T", " ", "1", ",">>) \o FormatInt(cfg.copies))

\* C1: the step that emits a page appends to the bytes on the descriptor
\* exactly the page's frame (command text, then the ceil(width/8) * height
\* bytes of the monochrome buffer, then CRLF and PRINT) and leaves nothing
\* in stdout's buffer; no other step writes to stdout.
C1_EmissionSequence ==
    [][ IF pc = "send"
          THEN /\ stdio'.buf = << >>
               /\ stdio'.fd = stdio.fd \o
                    ExpectedFrame(config, header,
                       [i \in 1 .. Ceil8(header.cupsWidth) * header.cupsHeight |->
                          mono_buffer.data[i - 1]])
          ELSE stdio' = stdio ]_vars

\* C1 witness: the second frame of a job, of a page wider than eight pixels,
\* has been emitted
C1_Witness ==
    /\ pc = "free"
    /\ pages.emitted = 2
    /\ header.cupsWidth = 9
    /\ Len(stdio.fd) > page.start

\* C2: after convert_gray_to_mono the monochrome buffer has ceil(W/8) bytes
\* per row, the bit of column x of row y (bit 7 - x mod 8 of byte
\* y * ceil(W/8) + x div 8) is 0 exactly when the quantized value at (x, y)
\* is below 128, and the bits of the columns from W on are 1.
C2_Packing ==
    cv.pc = "done" =>
      LET W == cv.width
          H == cv.height
          stride == Ceil8(W)
      IN  /\ DOMAIN cv.mono_data = 0 .. stride * H - 1
          /\ \A y \in 0 .. H - 1 :
               /\ \A x \in 0 .. W - 1 :
                    (Bit(cv.mono_data[y * stride + (x \div 8)], 7 - (x % 8)) = 0)
                      <=> (cv.buffer[y * W + x] < 128)
               /\ \A x \in W .. 8 * stride - 1 :
                    Bit(cv.mono_data[y * stride + (x \div 8)], 7 - (x % 8)) = 1

\* C2 witness: a converted field nine pixels wide whose dark pixel lies in
\* the second byte of a row
C2_Witness ==
    /\ cv.pc = "done"
    /\ cv.width = 9
    /\ cv.buffer[8] < 128
    /\ cv.buffer[0] >= 128

\* the cells east, south-west, south and south-east of (x, y) inside the field
Neighbours(x, y, width, height) ==
    { (y + d[2]) * width + (x + d[1]) :
        d \in { e \in { <<1, 0>>, <<-1, 1>>, <<0, 1>>, <<1, 1>> } :
                  /\ x + e[1] >= 0 /\ x + e[1] < width /\ y + e[2] < height } }

\* C3: every iteration of error_diffusion visits the next cell in row-major
\* order, leaves it 0 or 255, changes no cell visited before and no cell
\* other than the east, south-west, south and south-east neighbours inside
\* the field, and stores nothing outside the field; when the function
\* returns every cell is 0 or 255.
C3_Diffusion ==
    /\ [][ (ed.pc = "loop" /\ ed'.pc = "loop") =>
             LET k == ed.y * ed.width + ed.x
                 cells == 0 .. ed.width * ed.height - 1
             IN  /\ ed'.y * ed.width + ed'.x = k + 1
                 /\ DOMAIN ed'.input_data = cells
                 /\ ed'.input_data[k] \in {0, 255}
                 /\ \A i \in cells :
                      ed'.input_data[i] # ed.input_data[i] =>
                        \/ i = k
                        \/ i \in Neighbours(ed.x, ed.y, ed.width, ed.height)
                 /\ \A i \in cells :
                      i < k => /\ ed'.input_data[i] = ed.input_data[i]
                               /\ ed.input_data[i] \in {0, 255} ]_vars
    /\ [](ed.pc = "done" =>
            \A i \in 0 .. ed.width * ed.height - 1 : ed.input_data[i] \in {0, 255})

\* C3 witness: a finished field of two rows of three cells, all below the
\* threshold on entry, in which the diffused error has turned cells white
C3_Witness ==
    /\ ed.pc = "done"
    /\ ed.width = 3
    /\ ed.height = 2
    /\ \A i \in 0 .. 5 : ed.input0[i] = 127
    /\ \E i \in 0 .. 5 : ed.input_data[i] = 255

\* C4: after a header with a zero width, height or bytes-per-row is read,
\* process_raster_page is back at reading the next header with nothing
\* written for that page, no buffer allocated and nothing reported; and at
\* the loop's head every page read so far has been skipped or emitted.
C4_DegenerateSkipped ==
    /\ (ZeroField(header) /\ pages.read > 0 /\ page.result # "eof") =>
          /\ pc = "read_header"
          /\ page.result = "skipped"
          /\ Len(stdio.fd) = page.start
          /\ stdio.buf = << >>
          /\ stderr = << >>
          /\ raster_buffer.st # "live"
          /\ mono_buffer.st # "live"
    /\ pc = "read_header" =>
          /\ pages.read = pages.skipped + pages.emitted
          /\ stderr = << >>

\* C4 witness: the page after a skipped one has been emitted
C4_Witness ==
    /\ pages.read = 2
    /\ pages.skipped = 1
    /\ page.result = "emitted"
    /\ ~ZeroField(header)

\* C5: once cupsRasterReadPixels has delivered fewer bytes than
\* height * bytesPerLine the job is over, the raster buffer is released and
\* nothing has been written for the page.
C5_ShortReadAborts ==
    (page.nread >= 0 /\ page.nread < header.cupsHeight * header.cupsBytesPerLine) =>
       /\ pc = "returned"
       /\ raster_buffer.st # "live"
       /\ Len(stdio.fd) = page.start
       /\ stdio.buf = << >>

\* the pixels of the page in progress, if read at all, were read in full
ReadInFull ==
    page.nread \in {-1, header.cupsHeight * header.cupsBytesPerLine}

\* C6: once one of the three allocations of a page has failed (the page's
\* pixels having been read in full) the job is over, nothing has been
\* written for the page and the failure is reported on standard error.
C6_AllocFailureAborts ==
    (page.failed # "none" /\ ReadInFull) =>
       /\ pc = "returned"
       /\ Len(stdio.fd) = page.start
       /\ stdio.buf = << >>
       /\ stderr # << >>

\* C7: a page whose bytes-per-row differs from its width never reaches
\* transforming, quantizing or emitting (even when its pixels are read in
\* full and every allocation succeeds).
C7_InconsistentRowSkipped ==
    (header.cupsBytesPerLine # header.cupsWidth /\ ReadInFull /\ page.failed = "none")
       => pc \notin Processing

\* The pairs <<W, H>> for which s is lit1, the digits of W, lit2, the
\* digits of H and nothing else (one pair, or none)
FullForm(s, lit1, lit2) ==
    LET i == Len(lit1) + 1
    IN  { <<DecValue(s, i, j, 0), DecValue(s, j + Len(lit2), Len(s) + 1, 0)>> :
            j \in { n \in 1 .. Len(s) :
                      /\ i < n
                      /\ n + Len(lit2) <= Len(s)
                      /\ SubSeq(s, 1, i - 1) = lit1
                      /\ SubSeq(s, n, n + Len(lit2) - 1) = lit2
                      /\ \A k \in (i .. n - 1) \cup (n + Len(lit2) .. Len(s)) :
                           s[k] \in Digits } }

\* C8: from the zero defaults, a PageSize value that is fully Custom.<W>x<H>
\* or w<W>h<H> gives trunc(W/2.835) and trunc(H/2.835) millimetres, and
\* every other value leaves page width and height at 0.
C8_PageSizeParsing ==
    (op.pc = "done" /\ "PageSize" \in DOMAIN op.options) =>
       LET v == op.options["PageSize"]
           forms == FullForm(v, <<"C", "u", "s", "t", "o", "m", ".">>, <<"x">>)
                      \cup FullForm(v, <<"w">>, <<"h">>)
       IN  IF forms # {}
             THEN \A wh \in forms :
                    /\ op.config.page_width_mm = (wh[1] * 1000) \div 2835
                    /\ op.config.page_height_mm = (wh[2] * 1000) \div 2835
             ELSE /\ op.config.page_width_mm = 0
                  /\ op.config.page_height_mm = 0

\* C9: with mirror set and negate clear, an odd number of calls of
\* apply_image_manipulations leaves every row reversed, an even number
\* leaves the buffer as it was, and width and height never change.
C9_Mirror ==
    (im.pc = "ready" /\ im.config.mirrorImage = 1 /\ im.config.negativeImage = 0) =>
       /\ im.width = im.width0
       /\ im.height = im.height0
       /\ DOMAIN im.bitmap = 0 .. im.width0 * im.height0 - 1
       /\ \A y \in 0 .. im.height0 - 1 : \A x \in 0 .. im.width0 - 1 :
            im.bitmap[y * im.width0 + x] =
              IF im.calls % 2 = 1
                THEN im.orig[y * im.width0 + (im.width0 - 1 - x)]
                ELSE im.orig[y * im.width0 + x]

\* C9 witness: a buffer of odd width with different ends, mirrored twice
C9_Witness ==
    /\ im.pc = "ready"
    /\ im.config.mirrorImage = 1
    /\ im.config.negativeImage = 0
    /\ im.calls = 2
    /\ im.width = 3
    /\ im.height = 2
    /\ im.orig[0] # im.orig[2]

\* C10: no buffer is live when a header is read or when process_raster_page
\* has returned, no buffer is freed twice, and a buffer is live wherever the
\* code reads or writes it.
C10_BuffersReleased ==
    /\ pc \in {"read_header", "returned"} =>
          /\ raster_buffer.st # "live"
          /\ mono_buffer.st # "live"
          /\ buffer.st # "live"
    /\ \A b \in {raster_buffer, mono_buffer, buffer} : b.st # "double_free"
    /\ pc \in {"read_pixels", "manipulate", "alloc_mono", "convert", "pack", "send", "free"}
          => raster_buffer.st = "live"
    /\ pc \in {"convert", "pack", "send", "free"} => mono_buffer.st = "live"
    /\ pc = "pack" <=> buffer.st = "live"

\* C10 witness: the job has ended on a failed monochrome allocation after a
\* page was emitted
C10_Witness ==
    /\ pc = "returned"
    /\ page.failed = "mono_buffer"
    /\ pages.emitted = 1
    /\ raster_buffer.st = "freed"

=============================================================================
